---- MODULE Spec2Model ----
(***************************************************************************)
(* A model of EntityFu.cpp: the process-wide entity presence table, the    *)
(* per-type component slot arrays and the per-type dense id-lists.         *)
(*                                                                         *)
(* The program is single threaded.  Functions that call other functions    *)
(* (dealloc -> destroyAll -> destroyNow -> removeComponent, addComponent   *)
(* -> removeComponent) are modelled step by step with an explicit call     *)
(* stack, so that the states inside a running call are states of the       *)
(* model; while a call is running no other call can start.  A top-level    *)
(* call ends in the state "return": the caller sees the result there       *)
(* (call, pre and ret describe the call) and the next step drops it.       *)
(*                                                                         *)
(* Undefined behaviour is modelled by its outcomes: a read or write        *)
(* through a null table pointer stops the process (fault "null_deref");    *)
(* deleting an instance that was already deleted either goes unnoticed or  *)
(* stops the process (fault "double_delete"); a write to entities[eid]     *)
(* with eid >= kMaxEntities lands outside the presence table (recorded in  *)
(* oob) and either goes unnoticed or stops the process (fault              *)
(* "oob_write").  A stopped process takes no further step.                 *)
(***************************************************************************)
EXTENDS Integers, Sequences, FiniteSets, TLC

\* Sizes of the model.  kMaxEntities and Component::numCids come from
\* EntityFu.h and the component registration; NumPtrs is the number of
\* component instances the caller ever creates with new.
kMaxEntities == 3
numCids == 1
NumPtrs == 2

nullptr == 0

Eids == 0 .. (kMaxEntities - 1)
Cids == 0 .. (numCids - 1)
Ptrs == 1 .. NumPtrs

\* Argument values a caller passes: every in-range value and one value past
\* the end (kMaxEntities is also what create() can return).
EidArgs == 0 .. kMaxEntities
CidArgs == 0 .. numCids

VARIABLES
    entities,       \* bool* Entity::entities           [null, at]
    components,     \* Component*** Entity::components  [null, at]
    componentEids,  \* vector<Eid>* componentEids       [null, at]
    deleted,        \* per instance: how many times `delete` ran on it
    accepts,        \* per instance: how many addComponent calls took it
    oob,            \* indices >= kMaxEntities that the call in progress
                    \* wrote through entities[]
    fault,          \* "none", or why the process stopped
    stack,          \* functions in progress, innermost last
    reg,            \* locals of the running functions
    call,           \* the top-level call in progress and its arguments
    pre,            \* the table when that call started
    ret             \* what that call returns

vars == <<entities, components, componentEids, deleted, accepts, oob, fault,
          stack, reg, call, pre, ret>>

\* --------------------------------------------------------------------------
\* The table as one value

Table ==
    [entities |-> entities, components |-> components,
     componentEids |-> componentEids, deleted |-> deleted,
     oob |-> oob, fault |-> fault]

SetTable(m) ==
    /\ entities' = m.entities
    /\ components' = m.components
    /\ componentEids' = m.componentEids
    /\ deleted' = m.deleted
    /\ oob' = m.oob
    /\ fault' = m.fault

\* Contents of freshly initialised storage (alloc's loops).
BlankEntities == [eid \in Eids |-> FALSE]
BlankComponents == [cid \in Cids |-> [eid \in Eids |-> nullptr]]
BlankEids == [cid \in Cids |-> << >>]

\* The three static pointers before alloc and after dealloc.  The `at`
\* field of a null pointer is never read.
NullEntities == [null |-> TRUE, at |-> BlankEntities]
NullComponents == [null |-> TRUE, at |-> BlankComponents]
NullComponentEids == [null |-> TRUE, at |-> BlankEids]

Stopped(m, why) == [m EXCEPT !.fault = why]

\* --------------------------------------------------------------------------
\* Entity::alloc

\* alloc without the early return of lines 34-35.
alloc_noGuard(m) ==
    [m EXCEPT !.entities = [null |-> FALSE, at |-> BlankEntities],
              !.components = [null |-> FALSE, at |-> BlankComponents],
              !.componentEids = [null |-> FALSE, at |-> BlankEids]]

alloc(m) ==
    IF ~m.components.null
    THEN m
    ELSE [m EXCEPT !.entities = [null |-> FALSE, at |-> BlankEntities],
                   !.components = [null |-> FALSE, at |-> BlankComponents],
                   !.componentEids = [null |-> FALSE, at |-> BlankEids]]

\* --------------------------------------------------------------------------
\* Entity::create

\* for (; eid < kMaxEntities && entities[eid]; ++eid) {}
RECURSIVE scan(_, _)
scan(ents, eid) ==
    IF eid < kMaxEntities /\ ents[eid] THEN scan(ents, eid + 1) ELSE eid

\* create with the exhausted case wrapping the index into the table
\* (entities[eid % kMaxEntities] = true) instead of leaving it alone.
create_wrapWhenFull(m) ==
    LET a == alloc(m)
        eid == scan(a.entities.at, 1)
    IN  [m |-> [a EXCEPT !.entities.at[eid % kMaxEntities] = TRUE],
         ret |-> eid]

\* create with the scan started one identifier too far (Eid eid = 2).
create_scanFromTwo(m) ==
    LET a == alloc(m)
        eid == scan(a.entities.at, 2)
    IN  [m |-> IF eid < 1 \/ eid >= kMaxEntities
               THEN a
               ELSE [a EXCEPT !.entities.at[eid] = TRUE],
         ret |-> eid]

\* create with the scan started at the sentinel (Eid eid = 0) and only the
\* upper bound checked before the flag is set.
create_scanFromZero(m) ==
    LET a == alloc(m)
        eid == scan(a.entities.at, 0)
    IN  [m |-> IF eid >= kMaxEntities
               THEN a
               ELSE [a EXCEPT !.entities.at[eid] = TRUE],
         ret |-> eid]

create(m) ==
    LET a == alloc(m)
        eid == scan(a.entities.at, 1)
    IN  [m |-> IF eid < 1 \/ eid >= kMaxEntities
               THEN a
               ELSE [a EXCEPT !.entities.at[eid] = TRUE],
         ret |-> eid]

\* --------------------------------------------------------------------------
\* Entity::removeComponent: the set of outcomes of one call

\* std::find(eids.begin(), eids.end(), eid): index of the first occurrence,
\* Len(eids) + 1 for end().
RECURSIVE find(_, _, _)
find(eids, eid, i) ==
    IF i > Len(eids) THEN i
    ELSE IF eids[i] = eid THEN i
    ELSE find(eids, eid, i + 1)

\* eids.erase(it)
erase(eids, i) == SubSeq(eids, 1, i - 1) \o SubSeq(eids, i + 1, Len(eids))

\* The dense-list update removing the last entry (pop_back) instead of the
\* entry found.
eraseEid_popBack(eids, eid) ==
    IF Len(eids) > 0 THEN SubSeq(eids, 1, Len(eids) - 1) ELSE eids

eraseEid(eids, eid) ==
    LET it == find(eids, eid, 1)
    IN  IF it /= Len(eids) + 1 THEN erase(eids, it) ELSE eids

\* removeComponent without line 179: the instance is deleted and the eid
\* erased, but the slot keeps the pointer.
removeComponent_keepSlot(m, cid, eid) ==
    IF eid >= kMaxEntities THEN {m}
    ELSE IF m.entities.null THEN {Stopped(m, "null_deref")}
    ELSE IF ~m.entities.at[eid] \/ cid >= numCids THEN {m}
    ELSE IF m.components.null THEN {Stopped(m, "null_deref")}
    ELSE
        LET ptr == m.components.at[cid][eid]
            done == [m EXCEPT
                        !.deleted[ptr] = @ + 1,
                        !.componentEids.at[cid] = eraseEid(@, eid)]
        IN  IF ptr = nullptr THEN {m}
            ELSE IF m.deleted[ptr] > 0
                 THEN {done, Stopped(m, "double_delete")}
                 ELSE {done}

\* removeComponent that forgets `delete ptr` (line 176).
removeComponent_noDelete(m, cid, eid) ==
    IF eid >= kMaxEntities THEN {m}
    ELSE IF m.entities.null THEN {Stopped(m, "null_deref")}
    ELSE IF ~m.entities.at[eid] \/ cid >= numCids THEN {m}
    ELSE IF m.components.null THEN {Stopped(m, "null_deref")}
    ELSE IF m.components.at[cid][eid] = nullptr THEN {m}
    ELSE {[m EXCEPT !.components.at[cid][eid] = nullptr,
                    !.componentEids.at[cid] = eraseEid(@, eid)]}

removeComponent(m, cid, eid) ==
    IF eid >= kMaxEntities THEN {m}
    ELSE IF m.entities.null THEN {Stopped(m, "null_deref")}
    ELSE IF ~m.entities.at[eid] \/ cid >= numCids THEN {m}
    ELSE IF m.components.null THEN {Stopped(m, "null_deref")}
    ELSE
        LET ptr == m.components.at[cid][eid]
            done == [m EXCEPT
                        !.deleted[ptr] = @ + 1,
                        !.components.at[cid][eid] = nullptr,
                        !.componentEids.at[cid] = eraseEid(@, eid)]
        IN  IF ptr = nullptr THEN {m}
            ELSE IF m.deleted[ptr] > 0
                 THEN {done, Stopped(m, "double_delete")}
                 ELSE {done}

\* addComponent that does not ask whether the entity is live.
addComponent_check_anyEntity(m, cid, eid, c) ==
    IF c = nullptr THEN "reject"
    ELSE IF eid >= kMaxEntities THEN "reject"
    ELSE IF m.entities.null THEN "fault"
    ELSE IF cid >= numCids THEN "reject"
    ELSE "accept"

\* Lines 126-132: is the call rejected?  "fault" when the check itself reads
\* entities[eid] through a null pointer.
addComponent_check(m, cid, eid, c) ==
    IF c = nullptr THEN "reject"
    ELSE IF eid >= kMaxEntities THEN "reject"
    ELSE IF m.entities.null THEN "fault"
    ELSE IF ~m.entities.at[eid] \/ cid >= numCids THEN "reject"
    ELSE "accept"

\* The call gets past the checks and takes ownership of c.
Accepted(m, cid, eid, c) == addComponent_check(m, cid, eid, c) = "accept"

\* --------------------------------------------------------------------------
\* Queries

\* getComponent whose range check stops one entity short.
getComponent_offByOne(m, cid, eid) ==
    IF eid < kMaxEntities - 1 /\ cid < numCids
    THEN m.components.at[cid][eid]
    ELSE nullptr

getComponent(m, cid, eid) ==
    IF eid < kMaxEntities /\ cid < numCids
    THEN m.components.at[cid][eid]
    ELSE nullptr

getAll(m, cid) ==
    IF cid < numCids THEN m.componentEids.at[cid] ELSE << >>

count(m) == Cardinality({eid \in 1 .. (kMaxEntities - 1) : m.entities.at[eid]})

\* count(cid) resolved to the entity count of lines 213-220.
countCid_entityCount(m, cid) ==
    count(m)

countCid(m, cid) ==
    Len(getAll(m, cid))

\* --------------------------------------------------------------------------
\* Initial state: nothing allocated, every instance the caller will ever
\* create is undestroyed.

NoCall == [op |-> "none", cid |-> 0, eid |-> 0, c |-> nullptr]
NoReg == [eid |-> 0, cid |-> 0, it |-> 0]

NoPre ==
    [entities |-> NullEntities, components |-> NullComponents,
     componentEids |-> NullComponentEids, deleted |-> [p \in Ptrs |-> 0],
     oob |-> {}, fault |-> "none"]

Init ==
    /\ entities = NullEntities
    /\ components = NullComponents
    /\ componentEids = NullComponentEids
    /\ deleted = [p \in Ptrs |-> 0]
    /\ accepts = [p \in Ptrs |-> 0]
    /\ oob = {}
    /\ fault = "none"
    /\ stack = << >>
    /\ reg = NoReg
    /\ call = NoCall
    /\ pre = NoPre
    /\ ret = "void"

Idle == stack = << >> /\ fault = "none"
Running(fn) == stack /= << >> /\ stack[Len(stack)] = fn /\ fault = "none"

\* The stack after the running function returns: back in its caller, or, for
\* the top-level call, at the point where the caller has the result.
Done == <<"return">>
Pop == IF Len(stack) = 1 THEN Done ELSE SubSeq(stack, 1, Len(stack) - 1)
\* A call that stopped the process never returns.
Returned == stack = Done /\ fault = "none"

\* A top-level call starts: remember it and the table it started from.
Begin(op, cid, eid, c) ==
    /\ Idle
    /\ call' = [op |-> op, cid |-> cid, eid |-> eid, c |-> c]
    /\ pre' = Table
    /\ accepts' = IF op = "addComponent" /\ Accepted(Table, cid, eid, c)
                  THEN [accepts EXCEPT ![c] = @ + 1]
                  ELSE accepts

\* --------------------------------------------------------------------------
\* Top-level calls that run in one step

Call_alloc ==
    /\ Begin("alloc", 0, 0, nullptr)
    /\ SetTable(alloc(Table))
    /\ ret' = "void"
    /\ stack' = Done
    /\ UNCHANGED reg

Call_create ==
    /\ Begin("create", 0, 0, nullptr)
    /\ SetTable(create(Table).m)
    /\ ret' = create(Table).ret
    /\ stack' = Done
    /\ UNCHANGED reg

Call_removeComponent(cid, eid) ==
    /\ Begin("removeComponent", cid, eid, nullptr)
    /\ \E m2 \in removeComponent(Table, cid, eid) : SetTable(m2)
    /\ ret' = "void"
    /\ stack' = Done
    /\ UNCHANGED reg

\* --------------------------------------------------------------------------
\* Entity::destroyNow

\* entities[eid] = false
clearEntity(m, eid) ==
    IF m.entities.null THEN {Stopped(m, "null_deref")}
    ELSE IF eid >= kMaxEntities
         THEN {[m EXCEPT !.oob = @ \cup {eid}],
               Stopped([m EXCEPT !.oob = @ \cup {eid}], "oob_write")}
         ELSE {[m EXCEPT !.entities.at[eid] = FALSE]}

\* destroyNow with line 114 moved in front of the loop: the flag is cleared
\* first, and the removeComponent calls that follow reject the entity.
Call_destroyNow_clearFirst(eid) ==
    /\ Begin("destroyNow", 0, eid, nullptr)
    /\ IF eid = 0
       THEN /\ stack' = Done
            /\ UNCHANGED <<reg, entities, components, componentEids,
                           deleted, oob, fault>>
       ELSE /\ stack' = <<"destroyNow">>
            /\ reg' = [reg EXCEPT !.eid = eid, !.cid = 0]
            /\ \E m2 \in clearEntity(Table, eid) : SetTable(m2)
    /\ ret' = "void"

Call_destroyNow(eid) ==
    /\ Begin("destroyNow", 0, eid, nullptr)
    /\ IF eid = 0
       THEN stack' = Done /\ UNCHANGED reg
       ELSE /\ stack' = <<"destroyNow">>
            /\ reg' = [reg EXCEPT !.eid = eid, !.cid = 0]
    /\ ret' = "void"
    /\ UNCHANGED <<entities, components, componentEids, deleted, oob, fault>>

\* The loop of destroyNow without its body: no component is detached.
destroyNow_loop_noRemove ==
    /\ Running("destroyNow")
    /\ reg.cid < numCids
    /\ reg' = [reg EXCEPT !.cid = @ + 1]
    /\ UNCHANGED <<entities, components, componentEids, deleted, accepts, oob,
                   fault, stack, call, pre, ret>>

\* for (cid ...) removeComponent(cid, eid): one iteration
destroyNow_loop ==
    /\ Running("destroyNow")
    /\ reg.cid < numCids
    /\ \E m2 \in removeComponent(Table, reg.cid, reg.eid) : SetTable(m2)
    /\ reg' = [reg EXCEPT !.cid = @ + 1]
    /\ UNCHANGED <<accepts, stack, call, pre, ret>>

\* entities[eid] = false; return
destroyNow_clear ==
    /\ Running("destroyNow")
    /\ reg.cid >= numCids
    /\ \E m2 \in clearEntity(Table, reg.eid) : SetTable(m2)
    /\ stack' = Pop
    /\ reg' = IF Pop /= Done THEN [reg EXCEPT !.it = @ + 1] ELSE reg
    /\ UNCHANGED <<accepts, call, pre, ret>>

\* --------------------------------------------------------------------------
\* Entity::destroyAll

Call_destroyAll ==
    /\ Begin("destroyAll", 0, 0, nullptr)
    /\ stack' = <<"destroyAll">>
    /\ reg' = [reg EXCEPT !.it = 1]
    /\ ret' = "void"
    /\ UNCHANGED <<entities, components, componentEids, deleted, oob, fault>>

\* for (eid = 1; eid < kMaxEntities; ++eid) if (entities[eid]) destroyNow(eid)
destroyAll_loop ==
    /\ Running("destroyAll")
    /\ IF reg.it >= kMaxEntities
       THEN /\ stack' = Pop
            /\ UNCHANGED <<reg, fault>>
       ELSE IF entities.null
       THEN /\ fault' = "null_deref"
            /\ UNCHANGED <<stack, reg>>
       ELSE IF entities.at[reg.it]
       THEN /\ stack' = Append(stack, "destroyNow")
            /\ reg' = [reg EXCEPT !.eid = reg.it, !.cid = 0]
            /\ UNCHANGED fault
       ELSE /\ reg' = [reg EXCEPT !.it = @ + 1]
            /\ UNCHANGED <<stack, fault>>
    /\ UNCHANGED <<entities, components, componentEids, deleted, accepts,
                   oob, call, pre, ret>>

\* --------------------------------------------------------------------------
\* Entity::dealloc

\* dealloc that frees the storage without calling destroyAll (line 66).
Call_dealloc_noDestroyAll ==
    /\ Begin("dealloc", 0, 0, nullptr)
    /\ stack' = <<"dealloc">>
    /\ ret' = "void"
    /\ UNCHANGED <<entities, components, componentEids, deleted, oob, fault,
                   reg>>

Call_dealloc ==
    /\ Begin("dealloc", 0, 0, nullptr)
    /\ IF components.null
       THEN /\ stack' = <<"dealloc">>
            /\ UNCHANGED reg
       ELSE /\ stack' = <<"dealloc", "destroyAll">>
            /\ reg' = [reg EXCEPT !.it = 1]
    /\ ret' = "void"
    /\ UNCHANGED <<entities, components, componentEids, deleted, oob, fault>>

\* dealloc without line 80: components keeps its (now dangling) value.
dealloc_free_keepComponents(m) ==
    [m EXCEPT !.entities = NullEntities,
              !.components = [null |-> FALSE, at |-> BlankComponents],
              !.componentEids = NullComponentEids]

\* delete [] components[cid]; delete [] components; delete [] componentEids;
\* delete [] entities; the three pointers = nullptr
dealloc_free(m) ==
    [m EXCEPT !.entities = NullEntities,
              !.components = NullComponents,
              !.componentEids = NullComponentEids]

dealloc_end ==
    /\ Running("dealloc")
    /\ SetTable(dealloc_free(Table))
    /\ stack' = Pop
    /\ UNCHANGED <<accepts, reg, call, pre, ret>>

\* --------------------------------------------------------------------------
\* Entity::addComponent (its argument check is addComponent_check above)

\* addComponent without lines 141-142: the old instance is overwritten.
addComponent_keepOld(m, cid, eid) == {m}

\* Lines 141-142: if component already added, delete old one
addComponent_removeOld(m, cid, eid) ==
    IF m.components.at[cid][eid] /= nullptr
    THEN removeComponent(m, cid, eid)
    ELSE {m}

\* addComponent that puts the eid in front of the list instead of push_back.
addComponent_store_pushFront(m, cid, eid, c) ==
    [m EXCEPT !.components.at[cid][eid] = c,
              !.componentEids.at[cid] = <<eid>> \o @]

\* Lines 146-149: store the pointer, push_back the eid
addComponent_store(m, cid, eid, c) ==
    [m EXCEPT !.components.at[cid][eid] = c,
              !.componentEids.at[cid] = Append(@, eid)]

\* What a caller can pass as c: null, an instance it created and has not
\* handed to the table yet (instances are interchangeable, so the lowest
\* numbered one stands for all of them), or the instance it reads back from
\* the very slot it names.
Stored(p) == \E cid \in Cids, eid \in Eids : components.at[cid][eid] = p
Fresh(p) == deleted[p] = 0 /\ ~Stored(p)
NextFresh(p) == Fresh(p) /\ \A q \in Ptrs : Fresh(q) => p <= q
Occupant(cid, eid, p) ==
    /\ cid < numCids /\ eid < kMaxEntities
    /\ ~components.null
    /\ components.at[cid][eid] = p
    /\ deleted[p] = 0

Call_addComponent(cid, eid, c) ==
    /\ IF c = nullptr THEN TRUE ELSE NextFresh(c) \/ Occupant(cid, eid, c)
    /\ Begin("addComponent", cid, eid, c)
    /\ ret' = "void"
    /\ UNCHANGED reg
    /\ LET chk == addComponent_check(Table, cid, eid, c)
       IN  IF chk = "reject"
           THEN /\ stack' = Done
                /\ UNCHANGED <<entities, components, componentEids, deleted,
                               oob, fault>>
           ELSE IF chk = "fault"
           THEN /\ SetTable(Stopped(Table, "null_deref"))
                /\ UNCHANGED stack
           ELSE /\ \E m2 \in addComponent_removeOld(Table, cid, eid) :
                        SetTable(m2)
                /\ stack' = <<"addComponent">>

addComponent_end ==
    /\ Running("addComponent")
    /\ SetTable(addComponent_store(Table, call.cid, call.eid, call.c))
    /\ stack' = Pop
    /\ UNCHANGED <<accepts, reg, call, pre, ret>>

\* --------------------------------------------------------------------------
\* Query calls

Call_getComponent(cid, eid) ==
    /\ Begin("getComponent", cid, eid, nullptr)
    /\ IF eid < kMaxEntities /\ cid < numCids /\ components.null
       THEN fault' = "null_deref" /\ UNCHANGED ret
       ELSE ret' = getComponent(Table, cid, eid) /\ UNCHANGED fault
    /\ stack' = Done
    /\ UNCHANGED <<entities, components, componentEids, deleted, oob, reg>>

Call_getAll(cid) ==
    /\ Begin("getAll", cid, 0, nullptr)
    /\ IF cid < numCids /\ componentEids.null
       THEN fault' = "null_deref" /\ UNCHANGED ret
       ELSE ret' = getAll(Table, cid) /\ UNCHANGED fault
    /\ stack' = Done
    /\ UNCHANGED <<entities, components, componentEids, deleted, oob, reg>>

Call_count ==
    /\ Begin("count", 0, 0, nullptr)
    /\ IF kMaxEntities > 1 /\ entities.null
       THEN fault' = "null_deref" /\ UNCHANGED ret
       ELSE ret' = count(Table) /\ UNCHANGED fault
    /\ stack' = Done
    /\ UNCHANGED <<entities, components, componentEids, deleted, oob, reg>>

Call_countCid(cid) ==
    /\ Begin("countCid", cid, 0, nullptr)
    /\ IF cid < numCids /\ componentEids.null
       THEN fault' = "null_deref" /\ UNCHANGED ret
       ELSE ret' = countCid(Table, cid) /\ UNCHANGED fault
    /\ stack' = Done
    /\ UNCHANGED <<entities, components, componentEids, deleted, oob, reg>>

\* --------------------------------------------------------------------------
\* The top-level call has returned; the caller goes on.

Return ==
    /\ Returned
    /\ stack' = << >>
    /\ reg' = NoReg
    /\ call' = NoCall
    /\ pre' = NoPre
    /\ ret' = "void"
    /\ oob' = {}
    /\ UNCHANGED <<entities, components, componentEids, deleted, accepts,
                   fault>>

Next ==
    \/ Return
    \/ Call_alloc
    \/ Call_dealloc
    \/ dealloc_end
    \/ Call_create
    \/ \E eid \in EidArgs : Call_destroyNow(eid)
    \/ destroyNow_loop
    \/ destroyNow_clear
    \/ Call_destroyAll
    \/ destroyAll_loop
    \/ \E cid \in CidArgs, eid \in EidArgs, c \in {nullptr} \cup Ptrs :
           Call_addComponent(cid, eid, c)
    \/ addComponent_end
    \/ \E cid \in CidArgs, eid \in EidArgs : Call_removeComponent(cid, eid)
    \/ \E cid \in CidArgs, eid \in EidArgs : Call_getComponent(cid, eid)
    \/ \E cid \in CidArgs : Call_getAll(cid)
    \/ Call_count
    \/ \E cid \in CidArgs : Call_countCid(cid)

Spec == Init /\ [][Next]_vars

\* --------------------------------------------------------------------------
\* Vocabulary of the properties

Live(m, eid) == ~m.entities.null /\ eid \in Eids /\ m.entities.at[eid]
Allocated(m) ==
    ~m.entities.null /\ ~m.components.null /\ ~m.componentEids.null
Unallocated(m) ==
    m.entities.null /\ m.components.null /\ m.componentEids.null
Occupied(m, cid, eid) == m.components.at[cid][eid] /= nullptr
Positions(eids, eid) == {i \in 1 .. Len(eids) : eids[i] = eid}
Range(eids) == {eids[i] : i \in 1 .. Len(eids)}
Without(eids, eid) == SelectSeq(eids, LAMBDA e : e /= eid)
PoolFull(m) == \A eid \in 1 .. (kMaxEntities - 1) : Live(m, eid)
FreeIds(m) == {eid \in 1 .. (kMaxEntities - 1) : ~Live(m, eid)}
SameStorage(m, n) ==
    /\ m.entities = n.entities
    /\ m.components = n.components
    /\ m.componentEids = n.componentEids
EmptyStorage(m) ==
    /\ Allocated(m)
    /\ \A eid \in Eids : ~m.entities.at[eid]
    /\ \A cid \in Cids, eid \in Eids : ~Occupied(m, cid, eid)
    /\ \A cid \in Cids : m.componentEids.at[cid] = << >>
After(op) == Returned /\ call.op = op

\* --------------------------------------------------------------------------
\* C1: when every identifier in [1, kMaxEntities) is live, create() returns
\* the invalid-entity sentinel 0.  (The code returns kMaxEntities.)
C1_ExhaustedCreateReturnsZero ==
    After("create") /\ PoolFull(pre) => ret = 0

\* C2: a create() on an exhausted pool changes nothing: presence table,
\* slots and dense id-lists are as before, and count() is still
\* kMaxEntities - 1.
C2_ExhaustedCreateChangesNothing ==
    After("create") /\ PoolFull(pre) =>
        /\ SameStorage(Table, pre)
        /\ deleted = pre.deleted
        /\ count(Table) = kMaxEntities - 1

C2_Witness ==
    /\ After("create") /\ PoolFull(pre)
    /\ \E cid \in Cids, eid \in Eids : Occupied(pre, cid, eid)

\* C3: when some identifier in [1, kMaxEntities) is not live, create()
\* returns the smallest such identifier and marks exactly that one live; the
\* result is a function of the table the call started from.
C3_CreateReturnsLowestFree ==
    After("create") /\ FreeIds(pre) /= {} =>
        /\ ret \in FreeIds(pre)
        /\ \A eid \in FreeIds(pre) : ret <= eid
        /\ \A eid \in Eids : Live(Table, eid) <=> (Live(pre, eid) \/ eid = ret)
        /\ Allocated(Table)
        /\ ~pre.components.null =>
               /\ components = pre.components
               /\ componentEids = pre.componentEids

\* An id freed while a higher id is live is the one returned.
C3_Witness ==
    /\ After("create") /\ ret = 1
    /\ Live(pre, 2) /\ ~Live(pre, 1)

\* --------------------------------------------------------------------------
\* C4: between calls on an allocated table, slot (cid, eid) is occupied if
\* and only if eid occurs in the dense id-list of cid, no eid occurs twice,
\* and so the ids getAll(cid) returns are exactly those with a non-empty
\* getComponent(cid, eid).
C4_SlotsMatchDenseLists ==
    (Idle \/ Returned) /\ Allocated(Table) =>
        \A cid \in Cids :
            /\ \A eid \in Eids :
                   /\ Occupied(Table, cid, eid) <=>
                          eid \in Range(componentEids.at[cid])
                   /\ Cardinality(Positions(componentEids.at[cid], eid)) <= 1
            /\ Range(getAll(Table, cid)) =
                   {eid \in Eids : getComponent(Table, cid, eid) /= nullptr}

\* A component was detached from a list that still has another holder.
C4_Witness ==
    /\ After("removeComponent")
    /\ call.cid \in Cids /\ call.eid \in Eids
    /\ Occupied(pre, call.cid, call.eid)
    /\ Len(pre.componentEids.at[call.cid]) = 2
    /\ pre.componentEids.at[call.cid][1] = call.eid

\* C5: a non-live entity never has an occupied slot, in any state (also
\* inside destroyNow, destroyAll and dealloc), and a liveness flag goes from
\* set to clear only in a state where all slots of that entity are empty.
NoSlotOnDeadEntity ==
    ~components.null =>
        \A cid \in Cids, eid \in Eids :
            Occupied(Table, cid, eid) => Live(Table, eid)

ClearedOnlyWhenEmpty ==
    \A eid \in Eids :
        Live(Table, eid) /\ ~(~entities'.null /\ entities'.at[eid]) =>
            \A cid \in Cids : ~Occupied(Table, cid, eid)

C5_DeadEntityHasNoComponents ==
    []NoSlotOnDeadEntity /\ [][ClearedOnlyWhenEmpty]_vars

\* destroyNow has emptied both slots of a live entity and is about to clear
\* its flag.
C5_Witness ==
    /\ Running("destroyNow") /\ reg.cid >= numCids
    /\ call.op = "destroyNow"
    /\ Live(Table, reg.eid)
    /\ \A cid \in Cids : Occupied(pre, cid, reg.eid)

\* C6: addComponent on a slot occupied by a different instance: the old
\* instance is destroyed before c is installed.  Afterwards the slot holds
\* c, the old instance is destroyed and eid is in the dense list once; while
\* the call runs, the instance in the slot and the instance about to be
\* stored there are never both undestroyed.
Replacing ==
    /\ call.op = "addComponent"
    /\ addComponent_check(pre, call.cid, call.eid, call.c) = "accept"
    /\ Occupied(pre, call.cid, call.eid)
    /\ pre.components.at[call.cid][call.eid] /= call.c

Belonging(cid, eid) ==
    ({components.at[cid][eid]} \cup
        (IF Running("addComponent") /\ call.cid = cid /\ call.eid = eid
         THEN {call.c} ELSE {})) \ {nullptr}

C6_ReplaceDestroysOldFirst ==
    /\ Returned /\ Replacing =>
           /\ components.at[call.cid][call.eid] = call.c
           /\ LET old == pre.components.at[call.cid][call.eid]
              IN  deleted[old] = pre.deleted[old] + 1
           /\ Cardinality(Positions(componentEids.at[call.cid], call.eid)) = 1
    /\ Replacing =>
           \A cid \in Cids, eid \in Eids :
               Cardinality({p \in Belonging(cid, eid) : deleted[p] = 0}) <= 1

C6_Witness == Returned /\ Replacing

C8_RemoveIdempotent ==
    After("removeComponent") /\ Live(pre, call.eid) /\ call.cid \in Cids =>
        /\ ~Occupied(Table, call.cid, call.eid)
        /\ ~Occupied(pre, call.cid, call.eid) =>
               SameStorage(Table, pre) /\ deleted = pre.deleted

\* A removal from a slot that an earlier removal had emptied.
C8_Witness ==
    /\ After("removeComponent") /\ Live(pre, call.eid) /\ call.cid \in Cids
    /\ ~Occupied(pre, call.cid, call.eid)
    /\ \E p \in Ptrs : deleted[p] = 1
    /\ \E eid \in Eids : Occupied(pre, call.cid, eid)

\* C9: dealloc() from any allocated state, followed by alloc(), gives an
\* allocated table with count() = 0, every slot empty and every getAll(cid)
\* empty, on which the next create() returns 1.
C9_TeardownClean ==
    After("dealloc") /\ Allocated(pre) =>
        /\ Unallocated(Table)
        /\ LET t == alloc(Table)
           IN  /\ Allocated(t)
               /\ count(t) = 0
               /\ \A cid \in Cids :
                      /\ getAll(t, cid) = << >>
                      /\ \A eid \in Eids : getComponent(t, cid, eid) = nullptr
               /\ create(t).ret = 1

\* The table torn down had every entity live and components attached.
C9_Witness ==
    /\ After("dealloc") /\ Allocated(pre)
    /\ PoolFull(pre)
    /\ \A cid \in Cids : \E eid \in Eids : Occupied(pre, cid, eid)

\* C10: alloc() on an allocated table (called directly or from create())
\* leaves presence table, slots and dense lists as they are; on an
\* unallocated table it produces an empty table.
C10_AllocIdempotent ==
    /\ After("alloc") =>
           IF Allocated(pre) THEN SameStorage(Table, pre)
                             ELSE EmptyStorage(Table)
    /\ After("create") /\ Allocated(pre) =>
           /\ components = pre.components
           /\ componentEids = pre.componentEids
           /\ \A eid \in Eids \ {ret} : entities.at[eid] = pre.entities.at[eid]

C10_Witness ==
    /\ After("alloc") /\ Allocated(pre)
    /\ \E eid \in Eids : Live(pre, eid)
    /\ \E cid \in Cids, eid \in Eids : Occupied(pre, cid, eid)

\* --------------------------------------------------------------------------
\* C11: on an allocated table, addComponent with an empty component, with
\* eid >= kMaxEntities, with a non-live eid (0 included) or with
\* cid >= numCids, and removeComponent with eid >= kMaxEntities, a non-live
\* eid or cid >= numCids, complete and are no-ops: presence table, slots and
\* dense lists are unchanged and no instance is destroyed.
InvalidTarget(m, cid, eid) ==
    eid >= kMaxEntities \/ ~Live(m, eid) \/ cid >= numCids

C11_InvalidCallsAreNoOps ==
    /\ call.op = "addComponent" /\ Allocated(pre)
       /\ (call.c = nullptr \/ InvalidTarget(pre, call.cid, call.eid)) =>
           /\ Returned
           /\ SameStorage(Table, pre)
           /\ deleted = pre.deleted
    /\ call.op = "removeComponent" /\ Allocated(pre)
       /\ InvalidTarget(pre, call.cid, call.eid) =>
           /\ Returned
           /\ SameStorage(Table, pre)
           /\ deleted = pre.deleted

\* A real instance was offered for a dead entity while another entity held
\* a component.
C11_Witness ==
    /\ After("addComponent") /\ Allocated(pre)
    /\ call.c /= nullptr
    /\ call.cid < numCids /\ call.eid \in 1 .. (kMaxEntities - 1)
    /\ ~Live(pre, call.eid)
    /\ \E cid \in Cids, eid \in Eids : Occupied(pre, cid, eid)

\* --------------------------------------------------------------------------
\* C12: on an allocated table the checked getComponent(cid, eid) returns the
\* empty component when eid >= kMaxEntities or cid >= numCids and otherwise
\* exactly the content of slot (cid, eid), which is empty for every non-live
\* eid; it never changes any state.
C12_GetComponentReadsSlot ==
    call.op = "getComponent" /\ Allocated(pre) =>
        /\ Returned
        /\ ret = IF call.eid >= kMaxEntities \/ call.cid >= numCids
                 THEN nullptr
                 ELSE pre.components.at[call.cid][call.eid]
        /\ ~Live(pre, call.eid) => ret = nullptr
        /\ SameStorage(Table, pre)
        /\ deleted = pre.deleted

\* The component of the highest entity was read back.
C12_Witness ==
    /\ After("getComponent") /\ Allocated(pre)
    /\ call.eid = kMaxEntities - 1
    /\ ret /= nullptr

\* --------------------------------------------------------------------------
\* C13: on an allocated table getAll(cid) for cid >= numCids is the empty
\* sequence and count(cid) is 0; for cid < numCids, count(cid) is the length
\* of getAll(cid), which is the number of occupied slots of that type.
Holders(m, cid) == {eid \in Eids : Occupied(m, cid, eid)}

C13_CountMatchesGetAll ==
    /\ call.op = "getAll" /\ Allocated(pre) =>
           /\ Returned
           /\ IF call.cid >= numCids
              THEN ret = << >>
              ELSE /\ ret = pre.componentEids.at[call.cid]
                   /\ Len(ret) = Cardinality(Holders(pre, call.cid))
    /\ call.op = "countCid" /\ Allocated(pre) =>
           /\ Returned
           /\ IF call.cid >= numCids
              THEN ret = 0
              ELSE /\ ret = Len(getAll(pre, call.cid))
                   /\ ret = Cardinality(Holders(pre, call.cid))

\* One of two live entities holds a component, and count(cid) said so.
C13_Witness ==
    /\ After("countCid") /\ Allocated(pre)
    /\ call.cid < numCids
    /\ count(pre) = 2
    /\ ret = 1

\* --------------------------------------------------------------------------
\* C14: an instance that addComponent accepted at most once (so every
\* instance the caller passes only once) is destroyed exactly once: never
\* twice, never while it is still attached, and not at all before it was
\* accepted; an instance offered to a rejected addComponent is left alone;
\* after dealloc() every accepted instance has been destroyed.  An instance
\* is destroyed only out of its own slot, by removeComponent on that slot,
\* by addComponent replacing it, or by destroyNow / destroyAll / dealloc of
\* its owner.

\* addComponent has taken p and is about to store it.
InHand(p) ==
    call.op = "addComponent" /\ call.c = p /\ stack = <<"addComponent">>

OwnedOnce(p) ==
    /\ deleted[p] <= 1
    /\ accepts[p] = 0 => deleted[p] = 0 /\ ~Stored(p)
    /\ accepts[p] = 1 => (deleted[p] = 1) /= (Stored(p) \/ InHand(p))
    /\ After("dealloc") /\ accepts[p] = 1 => deleted[p] = 1

RejectedLeftAlone ==
    After("addComponent")
    /\ ~Accepted(pre, call.cid, call.eid, call.c) => deleted = pre.deleted

DestroyedByOwner(p) ==
    deleted'[p] /= deleted[p] =>
        /\ deleted'[p] = deleted[p] + 1
        /\ \E cid \in Cids, eid \in Eids :
               /\ components.at[cid][eid] = p
               /\ components'.at[cid][eid] = nullptr
               /\ \/ /\ call'.op \in {"removeComponent", "addComponent"}
                     /\ call'.cid = cid /\ call'.eid = eid
                  \/ /\ call'.op = "destroyNow"
                     /\ call'.eid = eid
                  \/ /\ call'.op \in {"destroyAll", "dealloc"}
                     /\ entities.at[eid]

C14_EachInstanceDestroyedOnce ==
    /\ [](\A p \in Ptrs : accepts[p] <= 1 => OwnedOnce(p))
    /\ []RejectedLeftAlone
    /\ [][\A p \in Ptrs : DestroyedByOwner(p)]_vars

\* dealloc() destroyed an attached instance; another one had been destroyed
\* earlier.
C14_Witness ==
    /\ After("dealloc")
    /\ \E p \in Ptrs, q \in Ptrs :
           /\ accepts[p] = 1 /\ pre.deleted[p] = 0 /\ deleted[p] = 1
           /\ accepts[q] = 1 /\ pre.deleted[q] = 1 /\ deleted[q] = 1

\* --------------------------------------------------------------------------
\* C15: dealloc() on an unallocated table is a no-op.  On an allocated table
\* it first makes every entity non-live and destroys every attached
\* component, and only then frees slot arrays, dense lists and presence
\* table, leaving all three absent.
TornDown ==
    /\ Running("dealloc") /\ Allocated(pre) =>
           /\ EmptyStorage(Table)
           /\ \A cid \in Cids, eid \in Eids :
                  Occupied(pre, cid, eid) =>
                      deleted[pre.components.at[cid][eid]] >
                          pre.deleted[pre.components.at[cid][eid]]
    /\ After("dealloc") =>
           /\ Unallocated(Table)
           /\ Unallocated(pre) => deleted = pre.deleted

FreedOnlyWhenEmpty ==
    \/ ~entities.null /\ entities'.null
    \/ ~components.null /\ components'.null
    \/ ~componentEids.null /\ componentEids'.null
    => /\ Running("dealloc")
       /\ EmptyStorage(Table)
       /\ entities'.null /\ components'.null /\ componentEids'.null

C15_DeallocEmptiesThenFrees ==
    []TornDown /\ [][FreedOnlyWhenEmpty]_vars

\* dealloc() of a full table with components has destroyed everything and is
\* about to free the storage.
C15_Witness ==
    /\ Running("dealloc") /\ Allocated(pre) /\ Allocated(Table)
    /\ PoolFull(pre)
    /\ \A cid \in Cids : \E eid \in Eids : Occupied(pre, cid, eid)

\* --------------------------------------------------------------------------
\* C16: entity 0 is never live: in every state its presence flag is false,
\* no slot (cid, 0) is occupied and 0 is in no dense list; destroyNow(0)
\* returns at once and changes no state.
ZeroIsNoEntity ==
    /\ ~Live(Table, 0)
    /\ ~components.null => \A cid \in Cids : ~Occupied(Table, cid, 0)
    /\ ~componentEids.null =>
           \A cid \in Cids : 0 \notin Range(componentEids.at[cid])

C16_EntityZeroNeverLive ==
    /\ ZeroIsNoEntity
    /\ call.op = "destroyNow" /\ call.eid = 0 =>
           /\ Returned
           /\ Table = pre

\* destroyNow(0) was called on a full table with components attached.
C16_Witness ==
    /\ After("destroyNow") /\ call.eid = 0
    /\ PoolFull(pre)
    /\ \E cid \in Cids, eid \in Eids : Occupied(pre, cid, eid)

\* --------------------------------------------------------------------------
\* C17: a dense list is ordered by the time of the most recent successful
\* addComponent of each holder.  A successful addComponent(cid, eid, c) puts
\* eid at the end of list cid (a replacement moves eid from its old place to
\* the end) and a removal deletes only that eid; in every step the entries
\* that stay keep their relative order and a new entry goes to the end.
ListStep(cid) ==
    LET old == componentEids.at[cid]
        new == componentEids'.at[cid]
    IN  \/ new = old
        \/ \E eid \in Range(old) : new = Without(old, eid)
        \/ /\ call'.op = "addComponent" /\ call'.cid = cid
           /\ call'.eid \notin Range(old)
           /\ new = Append(old, call'.eid)

AddMovesToEnd ==
    /\ After("addComponent")
       /\ Accepted(pre, call.cid, call.eid, call.c) =>
           /\ componentEids.at[call.cid] =
                  Append(Without(pre.componentEids.at[call.cid], call.eid),
                         call.eid)
           /\ \A cid \in Cids \ {call.cid} :
                  componentEids.at[cid] = pre.componentEids.at[cid]
    /\ After("removeComponent") /\ Allocated(pre) =>
           \A cid \in Cids :
               componentEids.at[cid] =
                   IF cid = call.cid
                   THEN Without(pre.componentEids.at[cid], call.eid)
                   ELSE pre.componentEids.at[cid]

C18_DestroyNowStaysInBounds ==
    /\ call.op = "destroyNow" => oob = {}
    /\ After("destroyNow") /\ Allocated(pre)
       /\ call.eid < kMaxEntities /\ ~Live(pre, call.eid) => Table = pre

\* C19: after any successful addComponent(cid, eid, c), slot (cid, eid)
\* holds c and c has not been destroyed, also when c is the instance already
\* stored in that slot.  (Lines 141-146 delete the occupant and then store
\* the pointer passed in, without comparing the two.)
C19_AttachedInstanceIsAlive ==
    After("addComponent") /\ Accepted(pre, call.cid, call.eid, call.c) =>
        /\ components.at[call.cid][call.eid] = call.c
        /\ deleted[call.c] = 0

\* C20: while the storage is unallocated, destroyNow(eid /= 0), destroyAll,
\* addComponent with a non-empty component, removeComponent, getComponent
\* and getAll with in-range arguments, count() and count(cid) complete
\* without dereferencing the absent tables and change nothing.  (Only
\* create() and alloc() allocate; the others index the null pointers.)
NeedsStorage ==
    \/ call.op = "destroyNow" /\ call.eid /= 0
    \/ call.op \in {"destroyAll", "removeComponent", "count", "countCid"}
    \/ call.op = "addComponent" /\ call.c /= nullptr
    \/ call.op = "getComponent"
       /\ call.eid < kMaxEntities /\ call.cid < numCids
    \/ call.op = "getAll" /\ call.cid < numCids

C20_UnallocatedIsNeverDereferenced ==
    NeedsStorage /\ Unallocated(pre) =>
        /\ fault = "none"
        /\ SameStorage(Table, pre)

====
